---- MODULE Spec2Model ----
(***************************************************************************)
(* Swim Team / Name Highlighter (app.py).                                  *)
(*                                                                         *)
(* A Python str is a sequence of one-character strings.  A document is a   *)
(* record with two independent views of each page, as PyMuPDF gives them:  *)
(*   text[p]    the lines of page.get_text("text").splitlines()            *)
(*   layout[p]  the blocks of page.get_text("dict")["blocks"]              *)
(* and annots[p], the highlight annotations added to page p.               *)
(* Page and line numbers are zero-based as in the code; TLA+ sequences are *)
(* one-based, so page pageno is text[pageno + 1].                          *)
(***************************************************************************)
EXTENDS Integers, Sequences, FiniteSets, TLC

VARIABLES
    uploaded_file,  \* st.file_uploader: <<>> (None) or <<document>>
    query_input,    \* st.text_input
    search_type,    \* st.radio
    raw,            \* main: uploaded_file.read()
    doc,            \* find_matches parameter doc
    query,          \* find_matches parameter query
    mode,           \* find_matches parameter mode
    q,              \* find_matches local q
    matches,        \* find_matches local and result; highlight_lines parameter
    pageno,         \* find_matches outer loop index
    i,              \* find_matches inner loop index
    input_bytes,    \* highlight_lines parameter
    hl_doc,         \* highlight_lines local doc (its own handle)
    m_idx,          \* highlight_lines: number of matches already processed
    highlighted,    \* highlight_lines result, <<>> until it returns
    ui,             \* what streamlit was asked to show, in order
    pc              \* position in the script

vars == <<uploaded_file, query_input, search_type, raw, doc, query, mode, q,
          matches, pageno, i, input_bytes, hl_doc, m_idx, highlighted, ui, pc>>

----------------------------------------------------------------------------
(* Bounds *)

MaxLineLen == 3
MaxQueryLen == 1
MaxPages == 2
MaxLines == 2
MaxSpans == 2
MaxBlocks == 2
MaxMatches == 2

----------------------------------------------------------------------------
(* Python str operations *)

Alphabet == {"a", "A", "b", " ", "\t"}

Upper == <<"A","B","C","D","E","F","G","H","I","J","K","L","M",
           "N","O","P","Q","R","S","T","U","V","W","X","Y","Z">>
Lower == <<"a","b","c","d","e","f","g","h","i","j","k","l","m",
           "n","o","p","q","r","s","t","u","v","w","x","y","z">>

\* the characters str.strip() removes (ASCII)
Whitespace == {" ", "\t", "\n", "\r"}

LowerChar(c) ==
    IF \E k \in 1..Len(Upper) : Upper[k] = c
    THEN Lower[CHOOSE k \in 1..Len(Upper) : Upper[k] = c]
    ELSE c

\* s.lower()
lower(s) == [k \in 1..Len(s) |-> LowerChar(s[k])]

RECURSIVE lstrip(_)
lstrip(s) == IF s # <<>> /\ Head(s) \in Whitespace THEN lstrip(Tail(s)) ELSE s

RECURSIVE rstrip(_)
rstrip(s) ==
    IF s # <<>> /\ s[Len(s)] \in Whitespace
    THEN rstrip(SubSeq(s, 1, Len(s) - 1))
    ELSE s

\* s.strip()
strip(s) == rstrip(lstrip(s))

\* s.startswith(p)
startswith(s, p) == Len(p) <= Len(s) /\ SubSeq(s, 1, Len(p)) = p

\* s.endswith(p)
endswith(s, p) == Len(p) <= Len(s) /\ SubSeq(s, Len(s) - Len(p) + 1, Len(s)) = p

\* p in s
contains(s, p) == \E k \in 0..(Len(s) - Len(p)) : SubSeq(s, k + 1, k + Len(p)) = p

\* " ".join(parts)
RECURSIVE join(_)
join(parts) ==
    IF parts = <<>> THEN <<>>
    ELSE IF Len(parts) = 1 THEN parts[1]
    ELSE parts[1] \o <<" ">> \o join(Tail(parts))

Str(n) == UNION {[1..k -> Alphabet] : k \in 0..n}

----------------------------------------------------------------------------
(* UTILITIES *)

\* lines 30-32
normalize(s) == strip(lower(s))

\* faulty variant: plain substring containment
contains_substring(line, team) == contains(lower(line), team)

\* faulty variant: the tab forms are forgotten
contains_no_tab(line, team) ==
    LET line_low == lower(line) IN
    \/ line_low = team
    \/ startswith(line_low, team \o <<" ">>)
    \/ endswith(line_low, <<" ">> \o team)
    \/ contains(line_low, <<" ">> \o team \o <<" ">>)

\* lines 35-51
contains_whole_team(line, team) ==
    LET line_low == lower(line) IN
    \/ line_low = team
    \/ startswith(line_low, team \o <<" ">>)
    \/ endswith(line_low, <<" ">> \o team)
    \/ contains(line_low, <<" ">> \o team \o <<" ">>)
    \/ startswith(line_low, team \o <<"\t">>)
    \/ endswith(line_low, <<"\t">> \o team)
    \/ contains(line_low, <<"\t">> \o team \o <<"\t">>)

----------------------------------------------------------------------------
(* Documents *)

\* no document (a variable not yet assigned)
NoDoc == [text |-> <<>>, layout |-> <<>>, annots |-> <<>>]

\* len(doc)
NumPages(d) == Len(d.text)

\* a document of which only the plain-text view is given
TextDoc(t) == [text |-> t, layout |-> [p \in 1..Len(t) |-> <<>>],
               annots |-> [p \in 1..Len(t) |-> <<>>]]

SeqUpTo(S, lo, hi) == UNION {[1..k -> S] : k \in lo..hi}

SampleLines == {<<"A", "\t">>, <<" ", "b", "a">>}

\* one page holding one line, the line any string
OneLineDocs == {TextDoc(<< <<l>> >>) : l \in Str(MaxLineLen)}

\* several pages of several lines
SamplePages == SeqUpTo(SampleLines, 0, MaxLines)
SampleDocs == {TextDoc(t) : t \in SeqUpTo(SamplePages, 1, MaxPages)}

SampleQueries == {<<>>, <<"a">>, <<"A", " ">>}

Modes == {"Team Code", "Swimmer Name"}

----------------------------------------------------------------------------
(* find_matches *)

\* faulty variant: the normalized line is kept instead of the raw one
MatchNormalized(p, n, line) == [page |-> p, line_num |-> n, text |-> normalize(line)]

\* lines 69-73 and 77-81: the dict appended for a matching line
Match(p, n, line) == [page |-> p, line_num |-> n, text |-> line]

\* faulty variant: the query must start the line
SwimmerPrefix(qq, line_low) == startswith(line_low, qq)

\* line 76
SwimmerHit(qq, line_low) == contains(line_low, qq)

\* lines 66-81: does the line at hand match?
Hit(md, qq, line) ==
    IF md = "Team Code"
    THEN contains_whole_team(line, qq)
    ELSE SwimmerHit(qq, normalize(line))

\* lines 56-57
FindEnter ==
    /\ pc = "find_matches"
    /\ q' = normalize(query)
    /\ matches' = <<>>
    /\ pageno' = 0
    /\ i' = 0
    /\ pc' = "scan"
    /\ UNCHANGED <<uploaded_file, query_input, search_type, raw, doc, query,
                   mode, input_bytes, hl_doc, m_idx, highlighted, ui>>

\* lines 63-81: one iteration of the inner loop
ScanLine ==
    /\ pc = "scan"
    /\ pageno < NumPages(doc)
    /\ i < Len(doc.text[pageno + 1])
    /\ LET line == doc.text[pageno + 1][i + 1] IN
       matches' = IF Hit(mode, q, line)
                  THEN Append(matches, Match(pageno, i, line))
                  ELSE matches
    /\ i' = i + 1
    /\ UNCHANGED <<uploaded_file, query_input, search_type, raw, doc, query,
                   mode, q, pageno, input_bytes, hl_doc, m_idx, highlighted,
                   ui, pc>>

\* lines 59-63: the inner loop is exhausted, on to the next page
NextPage ==
    /\ pc = "scan"
    /\ pageno < NumPages(doc)
    /\ i = Len(doc.text[pageno + 1])
    /\ pageno' = pageno + 1
    /\ i' = 0
    /\ UNCHANGED <<uploaded_file, query_input, search_type, raw, doc, query,
                   mode, q, matches, input_bytes, hl_doc, m_idx, highlighted,
                   ui, pc>>

\* line 83
FindReturn ==
    /\ pc = "scan"
    /\ pageno = NumPages(doc)
    /\ pc' = "find_return"
    /\ UNCHANGED <<uploaded_file, query_input, search_type, raw, doc, query,
                   mode, q, matches, pageno, i, input_bytes, hl_doc, m_idx,
                   highlighted, ui>>

\* find_matches called on its own with any document, query and mode
InitFind ==
    /\ \/ doc \in OneLineDocs /\ query \in Str(MaxQueryLen)
       \/ doc \in SampleDocs /\ query \in SampleQueries
    /\ mode \in Modes
    /\ uploaded_file = <<>>
    /\ query_input = <<>>
    /\ search_type = "Team Code"
    /\ raw = NoDoc
    /\ q = <<>>
    /\ matches = <<>>
    /\ pageno = 0
    /\ i = 0
    /\ input_bytes = NoDoc
    /\ hl_doc = NoDoc
    /\ m_idx = 0
    /\ highlighted = <<>>
    /\ ui = <<>>
    /\ pc = "find_matches"

NextFind == FindEnter \/ ScanLine \/ NextPage \/ FindReturn

SpecFind == InitFind /\ [][NextFind]_vars

----------------------------------------------------------------------------
(* Page layout: blocks -> lines -> spans, as page.get_text("dict") gives it *)

SpanTexts == {<<"a">>, <<"A", " ">>}

\* (x0, y0, x1, y1), each with x0 <= x1 and y0 <= y1
Boxes == {<<0, 0, 2, 1>>, <<1, 2, 3, 3>>, <<2, 1, 4, 4>>}

Spans == [text : SpanTexts, bbox : Boxes]

\* a layout line holds at least one span
LayoutLines == {[spans |-> ss] : ss \in SeqUpTo(Spans, 1, MaxSpans)}

Span(t, b) == [text |-> t, bbox |-> b]

LineA == [spans |-> <<Span(<<"a">>, <<0, 0, 2, 1>>)>>]
LineA2 == [spans |-> <<Span(<<"A", " ">>, <<1, 2, 3, 3>>)>>]
LineAA == [spans |-> <<Span(<<"a">>, <<2, 1, 4, 4>>), Span(<<"a">>, <<0, 0, 2, 1>>)>>]

\* two text blocks and a non-text block
SampleBlocks ==
    {[type |-> 0, lines |-> <<LineA>>],
     [type |-> 0, lines |-> <<LineA2, LineAA, LineA>>],
     [type |-> 1, lines |-> <<LineA>>]}

SampleLayoutPages == SeqUpTo(SampleBlocks, 0, MaxBlocks)

\* concatenation of the strings of a sequence
RECURSIVE concat(_)
concat(parts) == IF parts = <<>> THEN <<>> ELSE Head(parts) \o concat(Tail(parts))

SpanTextsOf(line) == [k \in 1..Len(line.spans) |-> line.spans[k].text]

\* page.get_text("text").splitlines(): one plain line per line of a text
\* block, its spans' text run together
RECURSIVE PlainLines(_)
PlainLines(blocks) ==
    IF blocks = <<>> THEN <<>>
    ELSE (IF Head(blocks).type = 0
          THEN [k \in 1..Len(Head(blocks).lines) |->
                    concat(SpanTextsOf(Head(blocks).lines[k]))]
          ELSE <<>>) \o PlainLines(Tail(blocks))

\* the document with the given page layouts and no annotation
Document(lay) ==
    [text |-> [p \in 1..Len(lay) |-> PlainLines(lay[p])],
     layout |-> lay,
     annots |-> [p \in 1..Len(lay) |-> <<>>]]

\* one page, one text block, one line of any spans
OneLineLayouts ==
    {Document(<< << [type |-> 0, lines |-> <<l>>] >> >>) : l \in LayoutLines}

\* two pages of sample blocks, the second of at most one block
TwoPageLayouts ==
    {Document(<<p1, p2>>) : p1 \in SampleLayoutPages,
                            p2 \in SeqUpTo(SampleBlocks, 0, 1)}

MatchTexts == {<<"a">>, <<" ", "A", " ", "a">>, <<"a", " ", " ", "A", "\t">>}

----------------------------------------------------------------------------
(* highlight_lines *)

\* min(...) and max(...) of a non-empty collection
Min(S) == CHOOSE x \in S : \A y \in S : x <= y
Max(S) == CHOOSE x \in S : \A y \in S : x >= y

\* lines 106-110: the combined bounding box of a line's spans
LineRect(spans) ==
    <<Min({spans[k].bbox[1] : k \in 1..Len(spans)}),
      Min({spans[k].bbox[2] : k \in 1..Len(spans)}),
      Max({spans[k].bbox[3] : k \in 1..Len(spans)}),
      Max({spans[k].bbox[4] : k \in 1..Len(spans)})>>

\* faulty variant: containment instead of equality
LineMatchesContains(line, target_text) ==
    contains(normalize(strip(join(SpanTextsOf(line)))), normalize(target_text))

\* lines 102-104
LineMatches(line, target_text) ==
    LET span_text == strip(join(SpanTextsOf(line))) IN
    normalize(span_text) = normalize(target_text)

\* lines 101-113 for block number b (zero-based) of a page: the annotations
\* added, in line order.  block and line record which layout line an
\* annotation was drawn for; the PDF annotation itself holds only rect.
BlockAnnots(block, b, target_text) ==
    LET f[k \in 0..Len(block.lines)] ==
            IF k = 0 THEN <<>>
            ELSE IF LineMatches(block.lines[k], target_text)
                 THEN Append(f[k - 1],
                             [rect |-> LineRect(block.lines[k].spans),
                              block |-> b, line |-> k - 1])
                 ELSE f[k - 1]
    IN f[Len(block.lines)]

\* faulty variant: the search stops at the first line found
PageAnnotsFirstOnly(blocks, target_text) ==
    LET f[b \in 0..Len(blocks)] ==
            IF b = 0 THEN <<>>
            ELSE IF blocks[b].type # 0 THEN f[b - 1]
                 ELSE f[b - 1] \o BlockAnnots(blocks[b], b - 1, target_text)
    IN IF f[Len(blocks)] = <<>> THEN <<>> ELSE <<f[Len(blocks)][1]>>

\* lines 97-113: the annotations added to a page for one match
PageAnnots(blocks, target_text) ==
    LET f[b \in 0..Len(blocks)] ==
            IF b = 0 THEN <<>>
            ELSE IF blocks[b].type # 0 THEN f[b - 1]
                 ELSE f[b - 1] \o BlockAnnots(blocks[b], b - 1, target_text)
    IN f[Len(blocks)]

\* line 88: a handle of its own on the document parsed from input_bytes
HlEnter ==
    /\ pc = "highlight_lines"
    /\ hl_doc' = input_bytes
    /\ m_idx' = 0
    /\ pc' = "hl_loop"
    /\ UNCHANGED <<uploaded_file, query_input, search_type, raw, doc, query,
                   mode, q, matches, pageno, i, input_bytes, highlighted, ui>>

\* faulty variant: a text already highlighted on the page is not highlighted
\* again
HlMatchOncePerText ==
    /\ pc = "hl_loop"
    /\ m_idx < Len(matches)
    /\ LET m == matches[m_idx + 1]
           target_text == strip(m.text)
           seen == \E k \in 1..m_idx :
                       /\ matches[k].page = m.page
                       /\ normalize(matches[k].text) = normalize(m.text)
           added == IF seen THEN <<>>
                    ELSE PageAnnots(hl_doc.layout[m.page + 1], target_text)
       IN hl_doc' = [hl_doc EXCEPT !.annots[m.page + 1] = @ \o added]
    /\ m_idx' = m_idx + 1
    /\ UNCHANGED <<uploaded_file, query_input, search_type, raw, doc, query,
                   mode, q, matches, pageno, i, input_bytes, highlighted, ui,
                   pc>>

\* lines 90-113: one iteration of the loop over the matches
HlMatch ==
    /\ pc = "hl_loop"
    /\ m_idx < Len(matches)
    /\ LET m == matches[m_idx + 1]
           target_text == strip(m.text)
           added == PageAnnots(hl_doc.layout[m.page + 1], target_text)
       IN hl_doc' = [hl_doc EXCEPT !.annots[m.page + 1] = @ \o added]
    /\ m_idx' = m_idx + 1
    /\ UNCHANGED <<uploaded_file, query_input, search_type, raw, doc, query,
                   mode, q, matches, pageno, i, input_bytes, highlighted, ui,
                   pc>>

\* faulty variant: only the pages that hold an annotation are saved
HlSaveAnnotatedPages ==
    /\ pc = "hl_loop"
    /\ m_idx = Len(matches)
    /\ LET keep == {p \in 1..NumPages(hl_doc) : hl_doc.annots[p] # <<>>}
           n == Cardinality(keep)
           nth[k \in 1..n] == CHOOSE p \in keep : Cardinality({r \in keep : r < p}) = k - 1
       IN highlighted' = << [text |-> [k \in 1..n |-> hl_doc.text[nth[k]]],
                             layout |-> [k \in 1..n |-> hl_doc.layout[nth[k]]],
                             annots |-> [k \in 1..n |-> hl_doc.annots[nth[k]]]] >>
    /\ hl_doc' = NoDoc
    /\ pc' = "hl_return"
    /\ UNCHANGED <<uploaded_file, query_input, search_type, raw, doc, query,
                   mode, q, matches, pageno, i, input_bytes, m_idx, ui>>

\* lines 115-119: the document is saved to bytes, closed, and the bytes
\* returned
HlSave ==
    /\ pc = "hl_loop"
    /\ m_idx = Len(matches)
    /\ highlighted' = <<hl_doc>>
    /\ hl_doc' = NoDoc
    /\ pc' = "hl_return"
    /\ UNCHANGED <<uploaded_file, query_input, search_type, raw, doc, query,
                   mode, q, matches, pageno, i, input_bytes, m_idx, ui>>

\* highlight_lines called on its own with any document and any list of
\* matches that name pages of it
InitHL ==
    /\ \/ /\ input_bytes \in OneLineLayouts
          /\ matches \in SeqUpTo({Match(0, 0, t) : t \in MatchTexts}, 0, MaxMatches)
       \/ /\ input_bytes \in TwoPageLayouts
          /\ matches \in SeqUpTo({Match(p, 0, t) : p \in {0, 1},
                                      t \in {<<"a">>, <<" ", "A", " ", "a">>}},
                                 0, MaxMatches)
    /\ uploaded_file = <<>>
    /\ query_input = <<>>
    /\ search_type = "Team Code"
    /\ raw = NoDoc
    /\ doc = NoDoc
    /\ query = <<>>
    /\ mode = "Team Code"
    /\ q = <<>>
    /\ pageno = 0
    /\ i = 0
    /\ hl_doc = NoDoc
    /\ m_idx = 0
    /\ highlighted = <<>>
    /\ ui = <<>>
    /\ pc = "highlight_lines"

NextHL == HlEnter \/ HlMatch \/ HlSave

SpecHL == InitHL /\ [][NextHL]_vars

----------------------------------------------------------------------------
(* MAIN APP LOGIC: one run of the script *)

\* faulty variant: the query is not trimmed before it is tested
MainNoStrip ==
    /\ pc = "main"
    /\ IF uploaded_file # <<>> /\ query_input # <<>>
       THEN /\ raw' = uploaded_file[1]
            /\ doc' = uploaded_file[1]
            /\ query' = query_input
            /\ mode' = search_type
            /\ pc' = "find_matches"
            /\ ui' = ui
       ELSE /\ ui' = Append(ui, [widget |-> "info"])
            /\ pc' = "done"
            /\ UNCHANGED <<raw, doc, query, mode>>
    /\ UNCHANGED <<uploaded_file, query_input, search_type, q, matches, pageno,
                   i, input_bytes, hl_doc, m_idx, highlighted>>

\* lines 126-131 and 155-156: the guard, the read, the parse and the call of
\* find_matches, or the hint to upload a file and enter a query
Main ==
    /\ pc = "main"
    /\ IF uploaded_file # <<>> /\ strip(query_input) # <<>>
       THEN /\ raw' = uploaded_file[1]
            /\ doc' = uploaded_file[1]
            /\ query' = query_input
            /\ mode' = search_type
            /\ pc' = "find_matches"
            /\ ui' = ui
       ELSE /\ ui' = Append(ui, [widget |-> "info"])
            /\ pc' = "done"
            /\ UNCHANGED <<raw, doc, query, mode>>
    /\ UNCHANGED <<uploaded_file, query_input, search_type, q, matches, pageno,
                   i, input_bytes, hl_doc, m_idx, highlighted>>

\* lines 138-141: the rows of the results table
ResultRows(ms) ==
    [k \in 1..Len(ms) |->
        [Page |-> ms[k].page + 1, Line |-> ms[k].line_num + 1, Text |-> ms[k].text]]

\* lines 133-134: no match, a warning and nothing else
MainNoMatches ==
    /\ pc = "find_return"
    /\ matches = <<>>
    /\ ui' = Append(ui, [widget |-> "warning"])
    /\ pc' = "done"
    /\ UNCHANGED <<uploaded_file, query_input, search_type, raw, doc, query,
                   mode, q, matches, pageno, i, input_bytes, hl_doc, m_idx,
                   highlighted>>

\* lines 135-146: the count, the table, and the call of highlight_lines
MainResults ==
    /\ pc = "find_return"
    /\ matches # <<>>
    /\ ui' = ui \o <<[widget |-> "success", count |-> Len(matches)],
                     [widget |-> "dataframe", rows |-> ResultRows(matches)]>>
    /\ input_bytes' = raw
    /\ pc' = "highlight_lines"
    /\ UNCHANGED <<uploaded_file, query_input, search_type, raw, doc, query,
                   mode, q, matches, pageno, i, hl_doc, m_idx, highlighted>>

\* lines 148-153
MainDownload ==
    /\ pc = "hl_return"
    /\ ui' = Append(ui, [widget |-> "download_button", data |-> highlighted[1]])
    /\ pc' = "done"
    /\ UNCHANGED <<uploaded_file, query_input, search_type, raw, doc, query,
                   mode, q, matches, pageno, i, input_bytes, hl_doc, m_idx,
                   highlighted>>

PipelineQueries == {<<>>, <<" ", "\t">>, <<"A">>, <<"a", " ">>, <<"a", "A">>}

\* the widgets' values when the script runs
Init ==
    /\ uploaded_file \in {<<>>} \cup {<<d>> : d \in OneLineLayouts \cup TwoPageLayouts}
    /\ query_input \in PipelineQueries
    /\ search_type \in Modes
    /\ raw = NoDoc
    /\ doc = NoDoc
    /\ query = <<>>
    /\ mode = "Team Code"
    /\ q = <<>>
    /\ matches = <<>>
    /\ pageno = 0
    /\ i = 0
    /\ input_bytes = NoDoc
    /\ hl_doc = NoDoc
    /\ m_idx = 0
    /\ highlighted = <<>>
    /\ ui = <<>>
    /\ pc = "main"

Next ==
    \/ Main
    \/ FindEnter \/ ScanLine \/ NextPage \/ FindReturn
    \/ MainNoMatches
    \/ MainResults
    \/ HlEnter \/ HlMatch \/ HlSave
    \/ MainDownload

Spec == Init /\ [][Next]_vars

----------------------------------------------------------------------------
(* Properties of find_matches *)

Scanning == pc \in {"scan", "find_return"}

Returned(p, n) ==
    \E k \in 1..Len(matches) : matches[k].page = p /\ matches[k].line_num = n

LineAt(p, n) == doc.text[p + 1][n + 1]

\* the (page, line) positions of the document scanned
Positions ==
    UNION {{<<p, n>> : n \in 0..(Len(doc.text[p + 1]) - 1)} :
              p \in 0..(NumPages(doc) - 1)}

Blank == {" ", "\t"}

\* nl holds qq as a free-standing token in the sense of the specification
FreeStanding(nl, qq) ==
    \/ nl = qq
    \/ \E c \in Blank : startswith(nl, qq \o <<c>>)
    \/ \E c \in Blank : endswith(nl, <<c>> \o qq)
    \/ \E c \in Blank : contains(nl, <<c>> \o qq \o <<c>>)

\* C1: in Team Code mode with a non-empty normalized query q, find_matches
\* returns a line if and only if the NORMALIZED line (lowercased and trimmed)
\* equals q, starts with q and a space or tab, ends with a space or tab and q,
\* or contains q between two spaces or between two tabs.  The code tests the
\* lowercased but untrimmed line, so this is violated.
C1_TeamCodeOnNormalizedLine ==
    (pc = "find_return" /\ mode = "Team Code" /\ strip(lower(query)) # <<>>) =>
        \A pn \in Positions :
            Returned(pn[1], pn[2]) <=>
                FreeStanding(strip(lower(LineAt(pn[1], pn[2]))), strip(lower(query)))

\* s holds an occurrence of qq bounded on the left by the start of s, a space
\* or a tab and on the right by the end of s, a space or a tab
BoundedOccurrence(s, qq) ==
    \E k \in 0..(Len(s) - Len(qq)) :
        /\ SubSeq(s, k + 1, k + Len(qq)) = qq
        /\ k = 0 \/ s[k] \in Blank
        /\ k + Len(qq) = Len(s) \/ s[k + Len(qq) + 1] \in Blank

mac_ma == <<"m","a","c","-","m","a">>

\* C2: in Team Code mode with a non-empty normalized query, every line
\* find_matches returns holds, lowercased, an occurrence of q whose left
\* neighbour is the start of the line, a space or a tab and whose right
\* neighbour is the end of the line, a space or a tab; "EMAC-MA" and
\* "Team MAC-MAX" do not match "mac-ma", "MAC-MA" and "MAC-MA<TAB>Results" do.
C2_NoPartialTeamCode ==
    /\ (Scanning /\ mode = "Team Code" /\ q # <<>>) =>
           \A k \in 1..Len(matches) : BoundedOccurrence(lower(matches[k].text), q)
    /\ ~Hit("Team Code", mac_ma, <<"E","M","A","C","-","M","A">>)
    /\ ~Hit("Team Code", mac_ma,
            <<"T","e","a","m"," ","M","A","C","-","M","A","X">>)
    /\ Hit("Team Code", mac_ma, <<"M","A","C","-","M","A">>)
    /\ Hit("Team Code", mac_ma,
           <<"M","A","C","-","M","A","\t","R","e","s","u","l","t","s">>)

\* a Team Code scan returned a line where q is bounded by whitespace and left
\* out a line that holds q inside a longer code
C2_Witness ==
    /\ pc = "find_return" /\ mode = "Team Code" /\ q # <<>>
    /\ \E k \in 1..Len(matches) : lower(matches[k].text) # q
    /\ \E pn \in Positions :
           /\ ~Returned(pn[1], pn[2])
           /\ contains(lower(LineAt(pn[1], pn[2])), q)

\* C3: in Swimmer Name mode find_matches returns a line if and only if the
\* normalized query (lowercased, trimmed) is a substring of the normalized
\* line, whatever the letter case and surrounding whitespace of the query.
C3_SwimmerSubstring ==
    (pc = "find_return" /\ mode = "Swimmer Name") =>
        \A pn \in Positions :
            Returned(pn[1], pn[2]) <=>
                contains(strip(lower(LineAt(pn[1], pn[2]))), strip(lower(query)))

\* a Swimmer Name scan whose query needed lowercasing and trimming returned a
\* line whose normalized text holds the query but does not start with it
C3_Witness ==
    /\ pc = "find_return" /\ mode = "Swimmer Name"
    /\ query # strip(lower(query)) /\ lower(query) # query /\ strip(query) # query
    /\ \E k \in 1..Len(matches) :
           ~startswith(strip(lower(matches[k].text)), strip(lower(query)))

Before(a, b) ==
    \/ a.page < b.page
    \/ a.page = b.page /\ a.line_num < b.line_num

\* C4: at every point of the scan and in the result, the matches are strictly
\* ordered by (page, line_num), each lies before the scan position, so no
\* position occurs twice, and each text is the raw line at its position.
C4_ScanOrder ==
    Scanning =>
        /\ \A j, k \in 1..Len(matches) : j < k => Before(matches[j], matches[k])
        /\ \A k \in 1..Len(matches) :
               /\ Before(matches[k], [page |-> pageno, line_num |-> i])
               /\ <<matches[k].page, matches[k].line_num>> \in Positions
               /\ matches[k].text = LineAt(matches[k].page, matches[k].line_num)

\* the scan returned a match on page 0 at a line other than the first, then
\* one on page 1 at line 0, one of them with text that is not normalized
C4_Witness ==
    /\ pc = "find_return"
    /\ \E j, k \in 1..Len(matches) :
           /\ j < k
           /\ matches[j].page = 0 /\ matches[j].line_num > 0
           /\ matches[k].page = 1 /\ matches[k].line_num = 0
           /\ matches[k].text # strip(lower(matches[k].text))

----------------------------------------------------------------------------
(* Properties of highlight_lines *)

Highlighting == pc \in {"hl_loop", "hl_return"}

\* the document highlight_lines is working on, or has returned
Cur == IF pc = "hl_return" THEN highlighted[1] ELSE hl_doc

\* the layout lines of page p (one-based) as (block, line) pairs (one-based)
LinesOn(p) ==
    UNION {{<<b, l>> : l \in 1..Len(Cur.layout[p][b].lines)} :
              b \in 1..Len(Cur.layout[p])}

LayoutLine(p, bl) == Cur.layout[p][bl[1]].lines[bl[2]]

\* the line's span texts joined with single spaces, trimmed and normalized,
\* equal the normalized text t
TextEqual(line, t) ==
    strip(lower(strip(join(SpanTextsOf(line))))) = strip(lower(t))

\* r is the union of the span boxes
IsUnion(r, spans) ==
    LET idx == 1..Len(spans) IN
    /\ \E k \in idx : r[1] = spans[k].bbox[1]
    /\ \E k \in idx : r[2] = spans[k].bbox[2]
    /\ \E k \in idx : r[3] = spans[k].bbox[3]
    /\ \E k \in idx : r[4] = spans[k].bbox[4]
    /\ \A k \in idx :
           /\ r[1] <= spans[k].bbox[1] /\ r[2] <= spans[k].bbox[2]
           /\ spans[k].bbox[3] <= r[3] /\ spans[k].bbox[4] <= r[4]
    /\ r[1] <= r[3] /\ r[2] <= r[4]

AnnotsFor(p, bl) ==
    {k \in 1..Len(Cur.annots[p]) :
        Cur.annots[p][k].block = bl[1] - 1 /\ Cur.annots[p][k].line = bl[2] - 1}

\* C6: for each match processed, every line of every text block (type 0) of
\* the match's page whose joined, trimmed, normalized span text equals the
\* match's normalized text has a highlight whose rectangle is the union of
\* the line's span boxes; lines of non-text blocks have no highlight.
C6_EveryEqualLineHighlighted ==
    Highlighting =>
        /\ \A k \in 1..m_idx :
               LET p == matches[k].page + 1 IN
               \A bl \in LinesOn(p) :
                   (Cur.layout[p][bl[1]].type = 0
                        /\ TextEqual(LayoutLine(p, bl), matches[k].text)) =>
                       /\ AnnotsFor(p, bl) # {}
                       /\ \A a \in AnnotsFor(p, bl) :
                              IsUnion(Cur.annots[p][a].rect, LayoutLine(p, bl).spans)
        /\ \A p \in 1..NumPages(Cur) : \A bl \in LinesOn(p) :
               Cur.layout[p][bl[1]].type # 0 => AnnotsFor(p, bl) = {}

\* one match highlighted two lines of its page, one of them with a rectangle
\* that is the box of none of its spans, and a line of a non-text block with
\* the text of a match was left alone
C6_Witness ==
    /\ pc = "hl_return"
    /\ \E p \in 1..NumPages(Cur) :
           /\ \E bl \in LinesOn(p) : \E a \in AnnotsFor(p, bl) :
                  \A k \in 1..Len(LayoutLine(p, bl).spans) :
                      LayoutLine(p, bl).spans[k].bbox # Cur.annots[p][a].rect
           /\ \E bl \in LinesOn(p) : \E k \in 1..Len(matches) :
                  /\ Cur.layout[p][bl[1]].type # 0
                  /\ matches[k].page = p - 1
                  /\ TextEqual(LayoutLine(p, bl), matches[k].text)
           /\ \E k \in 1..Len(matches) :
                  Cardinality({bl \in LinesOn(p) :
                      /\ matches[k].page = p - 1
                      /\ AnnotsFor(p, bl) # {}
                      /\ TextEqual(LayoutLine(p, bl), matches[k].text)}) >= 2

\* no layout line of the match's page has the match's normalized text
NoEqualLine(m) ==
    \A bl \in LinesOn(m.page + 1) : ~TextEqual(LayoutLine(m.page + 1, bl), m.text)

\* C7: a match none of whose page's layout lines has its normalized text is
\* skipped: the step adds no annotation, changes no page, and the loop goes
\* on with the next match; highlight_lines returns only after every match
\* was processed, with the serialized document.
C7_SilentSkip ==
    /\ [][(pc = "hl_loop" /\ m_idx < Len(matches)
              /\ NoEqualLine(matches[m_idx + 1])) =>
             (hl_doc' = hl_doc /\ m_idx' = m_idx + 1 /\ pc' = "hl_loop")]_vars
    /\ [](pc = "hl_return" => (m_idx = Len(matches) /\ Len(highlighted) = 1))

\* the first match was skipped and the second one highlighted a line
C7_Witness ==
    /\ pc = "hl_return"
    /\ Len(matches) = 2
    /\ NoEqualLine(matches[1])
    /\ ~NoEqualLine(matches[2])
    /\ \E p \in 1..NumPages(Cur) : Cur.annots[p] # <<>>

MatchesFor(p, line) ==
    {k \in 1..m_idx : matches[k].page = p - 1 /\ TextEqual(line, matches[k].text)}

\* C10: the number of highlights added to a line of a text block on page p is
\* the number of matches processed that name page p and have the line's
\* normalized text; a line of a non-text block has none; every highlight
\* belongs to a layout line; a page no match names has no highlight.
C10_OneHighlightPerMatch ==
    Highlighting =>
        \A p \in 1..NumPages(Cur) :
            /\ \A bl \in LinesOn(p) :
                   Cardinality(AnnotsFor(p, bl)) =
                       IF Cur.layout[p][bl[1]].type = 0
                       THEN Cardinality(MatchesFor(p, LayoutLine(p, bl)))
                       ELSE 0
            /\ \A k \in 1..Len(Cur.annots[p]) :
                   <<Cur.annots[p][k].block + 1, Cur.annots[p][k].line + 1>> \in LinesOn(p)
            /\ (\A k \in 1..m_idx : matches[k].page # p - 1) => Cur.annots[p] = <<>>

\* two matches with the same page and normalized text gave one line two
\* highlights, and the other page none
C10_Witness ==
    /\ pc = "hl_return"
    /\ Len(matches) >= 2
    /\ matches[1].page = matches[2].page
    /\ strip(lower(matches[1].text)) = strip(lower(matches[2].text))
    /\ NumPages(Cur) = 2
    /\ \E p \in 1..2 : \E bl \in LinesOn(p) : Cardinality(AnnotsFor(p, bl)) >= 2
    /\ \E p \in 1..2 : Cur.annots[p] = <<>> /\ LinesOn(p) # {}

----------------------------------------------------------------------------
(* Properties of the script *)

Shown(w) == \E k \in 1..Len(ui) : ui[k].widget = w

HighlightStarted ==
    pc \in {"hl_loop", "hl_return"} \/ highlighted # <<>> \/ hl_doc # NoDoc

\* C9: find_matches runs only with a file uploaded and a query that is not
\* blank (so never with a query that normalizes to the empty string);
\* highlight_lines runs and the download is offered only after find_matches
\* returned a non-empty list; with an empty list the script warns and stops
\* without highlighting or download; the table has one row per match, in
\* match order, with Page = page + 1 and Line = line_num + 1.
C9_Pipeline ==
    /\ pc \in {"find_matches", "scan", "find_return"} =>
           /\ uploaded_file # <<>>
           /\ strip(query_input) # <<>>
           /\ query = query_input
           /\ strip(lower(query)) # <<>>
           /\ doc = uploaded_file[1]
    /\ pc = "main" => ui = <<>>
    /\ (pc = "highlight_lines" \/ HighlightStarted \/ Shown("download_button")) =>
           /\ matches # <<>>
           /\ pageno = NumPages(doc)
           /\ Shown("success")
           /\ ~Shown("warning")
    /\ Shown("warning") =>
           /\ pc = "done"
           /\ matches = <<>>
           /\ Len(ui) = 1
           /\ highlighted = <<>>
           /\ ~HighlightStarted
    /\ Shown("info") =>
           /\ pc = "done" /\ Len(ui) = 1 /\ pageno = 0 /\ highlighted = <<>>
           /\ (uploaded_file = <<>> \/ strip(query_input) = <<>>)
    /\ \A k \in 1..Len(ui) :
           ui[k].widget = "dataframe" =>
               /\ Len(ui[k].rows) = Len(matches)
               /\ \A r \in 1..Len(matches) :
                      /\ ui[k].rows[r].Page = matches[r].page + 1
                      /\ ui[k].rows[r].Line = matches[r].line_num + 1
                      /\ ui[k].rows[r].Text = matches[r].text
    /\ pc = "done" =>
           \/ Shown("info")
           \/ Shown("warning")
           \/ /\ Len(ui) = 3
              /\ ui[1].widget = "success" /\ ui[1].count = Len(matches)
              /\ ui[2].widget = "dataframe"
              /\ ui[3].widget = "download_button"
              /\ ui[3].data = highlighted[1]

\* a run that listed two matches and offered the download
C9_Witness ==
    /\ pc = "done"
    /\ Shown("download_button")
    /\ Len(matches) >= 2
    /\ query_input # strip(query_input)

====
